---- MODULE Spec2Model ----
(***************************************************************************)
(* A model of nipeep (src/nipeep.py): PipeFunc, the memoizing wrapper      *)
(* around nipype interfaces, and Memory, the usage logs and the two        *)
(* collections (clear_previous_runs, clear_runs_since) of one cache root.  *)
(*                                                                         *)
(* Strings the code inspects character by character (directory names,      *)
(* log lines, log paths) are sequences of one-character strings, so that   *)
(* startswith, replace, the "%02i" formats, the string comparison of log   *)
(* paths and the l[:-1] of the log readers are computed as the code        *)
(* computes them.                                                          *)
(***************************************************************************)
EXTENDS Integers, Sequences, FiniteSets, TLC

\* ------------------------------------------------------------------ bounds
MaxHandles == 2      \* Memory objects constructed on the root
MaxCalls == 2        \* memoized calls started
MaxCollect == 2      \* collections run
MaxPipeFuncs == 1    \* PipeFunc objects constructed directly on the root path

Procs == {"p1", "p2"}            \* the callers sharing the root
Files == {"f1", "f2"}            \* files the inputs refer to
Mtimes == {0, 1}                 \* the modification times a file takes
Contents == {0, 1}               \* the contents a file takes
Collectors == {"g1", "g2"}       \* the collectors sharing the root
\* what the root path is before a constructor looks at it
RootKinds == {"absent", "dir", "file"}
\* the dates <<year, month, day>> the clock takes, and those the collections
\* by date are asked to cut at
Dates == {<<2010, 10, 9>>, <<2011, 9, 10>>}
CutOffDates == Dates \cup {<<2011, 9, 9>>, <<2011, 10, 9>>}
None == -1                       \* stands for Python's None (no date part is negative)

\* ------------------------------------------------------------ strings
\* The characters of the names the code builds, with their ASCII codes:
\* Python compares strings code by code.
Ord(c) ==
  CASE c = "\n" -> 10 [] c = "-" -> 45 [] c = "." -> 46 [] c = "/" -> 47
    [] c = "0" -> 48 [] c = "1" -> 49 [] c = "2" -> 50 [] c = "3" -> 51
    [] c = "4" -> 52 [] c = "5" -> 53 [] c = "6" -> 54 [] c = "7" -> 55
    [] c = "8" -> 56 [] c = "9" -> 57 [] c = "M" -> 77 [] c = "T" -> 84
    [] c = "_" -> 95 [] c = "a" -> 97 [] c = "b" -> 98 [] c = "c" -> 99
    [] c = "d" -> 100 [] c = "e" -> 101 [] c = "f" -> 102 [] c = "g" -> 103
    [] c = "l" -> 108 [] c = "m" -> 109 [] c = "n" -> 110 [] c = "o" -> 111
    [] c = "r" -> 114 [] c = "t" -> 116 [] c = "u" -> 117

\* Python's s < t on strings: the first differing character decides, a proper
\* prefix is smaller.
RECURSIVE StrLess(_, _)
StrLess(s, t) ==
  IF t = <<>> THEN FALSE
  ELSE IF s = <<>> THEN TRUE
  ELSE IF Head(s) = Head(t) THEN StrLess(Tail(s), Tail(t))
  ELSE Ord(Head(s)) < Ord(Head(t))

\* str.startswith
\* Faulty variant of StartsWith: the whole string is compared.
StartsWith_Whole(s, prefix) == s = prefix
StartsWith(s, prefix) ==
  /\ Len(s) >= Len(prefix)
  /\ SubSeq(s, 1, Len(prefix)) = prefix

\* str.replace(old, new) for one-character old and new
Replace(s, old, new) == [i \in DOMAIN s |-> IF s[i] = old THEN new ELSE s[i]]

Digit(n) == CASE n = 0 -> "0" [] n = 1 -> "1" [] n = 2 -> "2" [] n = 3 -> "3"
              [] n = 4 -> "4" [] n = 5 -> "5" [] n = 6 -> "6" [] n = 7 -> "7"
              [] n = 8 -> "8" [] n = 9 -> "9" [] n = 10 -> "a" [] n = 11 -> "b"
              [] n = 12 -> "c" [] n = 13 -> "d" [] n = 14 -> "e" [] n = 15 -> "f"

\* the digits of n >= 0 in a base, most significant first
RECURSIVE ToBase(_, _)
ToBase(n, base) ==
  IF n < base THEN <<Digit(n)>>
  ELSE Append(ToBase(n \div base, base), Digit(n % base))

\* '%i' % n
FmtI(n) == ToBase(n, 10)

\* '%02i' % n : at least two characters, padded with zeros on the left
\* Faulty variant of Fmt02: '%i' in place of '%02i'.
Fmt02_Unpadded(n) == FmtI(n)
Fmt02(n) == IF Len(FmtI(n)) < 2 THEN <<"0">> \o FmtI(n) ELSE FmtI(n)

\* ------------------------------------------------- interfaces and inputs
\* The wrapped nipype interface classes: __module__, __name__ and the traits
\* of input_spec. A trait is a File (with its exists flag), a List of an
\* inner trait, or anything else (a scalar). The two classes are those of
\* src/example.py, with short module names; one module name starts with
\* "log." so that the collections' startswith('log.') filter meets it.
NoTrait == [type |-> "Any", exists |-> FALSE, inner |-> None]
FileTrait(e) == [type |-> "File", exists |-> e, inner |-> None]
ListTrait(t) == [type |-> "List", exists |-> FALSE, inner |-> t]

Threshold ==
  [module |-> <<"l", "o", "g", ".", "m">>, class |-> <<"T">>,
   traits |-> [n \in {"in_file", "out_file", "thresh"} |->
                 CASE n = "in_file" -> FileTrait(TRUE)
                   [] n = "out_file" -> FileTrait(FALSE)
                   [] n = "thresh" -> NoTrait]]

Merge ==
  [module |-> <<"f", ".", "u">>, class |-> <<"M">>,
   traits |-> [n \in {"in_files", "dimension"} |->
                 CASE n = "in_files" -> ListTrait(FileTrait(TRUE))
                   [] n = "dimension" -> NoTrait]]

Interfaces == {"Threshold", "Merge"}
Class(i) == IF i = "Threshold" THEN Threshold ELSE Merge

\* The values callers pass for each input name ("bogus" is in no input_spec).
FileLists == {<<"f1", "f2">>, <<"f2", "f1">>}
ValuesOf(name) ==
  CASE name \in {"in_file", "out_file"} -> {"f1"}
    [] name = "in_files" -> FileLists
    [] name = "thresh" -> {1}
    [] name \in {"dimension", "bogus"} -> {1}

\* **kwargs: a dict, modelled as the sequence of its (name, value) items in
\* the order the dict iterates them; the names are distinct.
Items(names) == UNION {{<<nm, v>> : v \in ValuesOf(nm)} : nm \in names}
KwargsOver(names) ==
  {kw \in UNION {[1..n -> Items(names)] : n \in 1..2} :
     \A i, j \in DOMAIN kw : i # j => kw[i][1] # kw[j][1]}
\* the calls whose names are computed: <<interface, kwargs>>
HashInputs ==
  {<<"Threshold", kw>> : kw \in KwargsOver({"in_file", "thresh"}) \cup KwargsOver({"bogus"})}
    \cup {<<"Merge", kw>> : kw \in KwargsOver({"in_files"})}
\* the calls made against the root: those of HashInputs that give every
\* input of Threshold, in either order, or one list to Merge, or a bad name
CallInputs ==
  {c \in HashInputs :
     \/ c[1] = "Threshold" /\ Len(c[2]) = 2
     \/ c[1] = "Threshold" /\ c[2][1][1] = "bogus"
     \/ c[1] = "Merge" /\ c[2][1][2] = <<"f1", "f2">>}

\* ------------------------------------------------------- hashing inputs
\* hash_file: the file name, with the modification time os.stat reports
\* when the trait says the file must exist.
\* Faulty variant of hash_file: the modification time is not the file's.
hash_file_Stale(filename, exists, mt) ==
  IF exists THEN <<filename, 0>> ELSE filename
hash_file(filename, exists, mt) ==
  IF exists THEN <<filename, mt[filename]>> ELSE filename

\* _hash: the static representation of one input value under its trait.
\* Faulty variant of _hash: the elements of a list are sorted.
RECURSIVE _hash_Sorted(_, _, _)
_hash_Sorted(value, trait, mt) ==
  IF trait.type = "File" THEN hash_file(value, trait.exists, mt)
  ELSE IF trait.type = "List"
    THEN LET Rank(f) == IF f = "f1" THEN 1 ELSE 2
             sorted == SortSeq(value, LAMBDA a, b : Rank(a) < Rank(b))
         IN  [i \in DOMAIN sorted |-> _hash_Sorted(sorted[i], trait.inner, mt)]
  ELSE value

RECURSIVE _hash(_, _, _)
_hash(value, trait, mt) ==
  IF trait.type = "File" THEN hash_file(value, trait.exists, mt)
  ELSE IF trait.type = "List"
    THEN [i \in DOMAIN value |-> _hash(value[i], trait.inner, mt)]
  ELSE value

\* hash_inputs: the dict name -> _hash(value), filled in the iteration order
\* of inputs; ValueError at the first name that is not a trait.
\* Faulty variant of hash_inputs: a name that is not a trait is skipped.
RECURSIVE hash_inputs_Skipping(_, _, _)
hash_inputs_Skipping(inputs, traits, mt) ==
  IF inputs = <<>> THEN [error |-> FALSE, out |-> <<>>]
  ELSE LET name == Head(inputs)[1]
           value == Head(inputs)[2]
           rest == hash_inputs_Skipping(Tail(inputs), traits, mt)
       IN  IF name \notin DOMAIN traits THEN rest
           ELSE [error |-> FALSE,
                 out |-> <<<<name, _hash(value, traits[name], mt)>>>> \o rest.out]

RECURSIVE hash_inputs(_, _, _)
hash_inputs(inputs, traits, mt) ==
  IF inputs = <<>> THEN [error |-> FALSE, out |-> <<>>]
  ELSE LET name == Head(inputs)[1]
           value == Head(inputs)[2]
           rest == hash_inputs(Tail(inputs), traits, mt)
       IN  IF name \notin DOMAIN traits THEN [error |-> TRUE, out |-> <<>>]
           ELSE IF rest.error THEN rest
           ELSE [error |-> FALSE,
                 out |-> <<<<name, _hash(value, traits[name], mt)>>>> \o rest.out]

\* ------------------------------------------------------------ node name
\* pickle.dumps writes the items of the dict in its iteration order and md5
\* digests those bytes. The digest is modelled as a collision-free code of
\* the pickled items, in that order, written in hexadecimal.
Max(S) == CHOOSE x \in S : \A y \in S : y <= x
RECURSIVE Pow(_, _)
Pow(b, n) == IF n = 0 THEN 1 ELSE b * Pow(b, n - 1)
FileIdx(f) == CASE f = "f1" -> 1 [] f = "f2" -> 2
NameIdx(name) ==
  CASE name \in {"in_file", "in_files"} -> 1
    [] name \in {"thresh", "dimension"} -> 2
    [] name = "out_file" -> 3
MtBase == Max(Mtimes) + 1
ElemBase == (Cardinality(Files) + 1) * MtBase
ValBase == Pow(ElemBase, Max({Len(l) : l \in FileLists}))
ItemBase == 4 * ValBase

RECURSIVE ValCode(_, _)
ValCode(fp, trait) ==
  IF trait.type = "File"
    THEN IF trait.exists THEN FileIdx(fp[1]) * MtBase + fp[2] ELSE FileIdx(fp)
  ELSE IF trait.type = "List"
    THEN IF fp = <<>> THEN 0
         ELSE ValCode(SubSeq(fp, 1, Len(fp) - 1), trait) * ElemBase
                + ValCode(fp[Len(fp)], trait.inner)
  ELSE fp

RECURSIVE PickleCode(_, _)
PickleCode(out, traits) ==
  IF out = <<>> THEN 0
  ELSE LET last == out[Len(out)]
       IN  PickleCode(SubSeq(out, 1, Len(out) - 1), traits) * ItemBase
             + NameIdx(last[1]) * ValBase + ValCode(last[2], traits[last[1]])

hexdigest(out, traits) == ToBase(PickleCode(out, traits), 16)

\* name = '%s-%s_%s' % (module.replace('.', '-'), class name, hexdigest)
NodeName(iface, out) ==
  Replace(iface.module, ".", "-") \o <<"-">> \o iface.class \o <<"_">>
    \o hexdigest(out, iface.traits)


\* ------------------------------------------------------------- the root
\* base_dir, and the names the code gives the logs under it.
BaseDir == <<"/", "r">>
LOG_DOT == <<"l", "o", "g", ".">>
LOG_CURRENT == LOG_DOT \o <<"c", "u", "r", "r", "e", "n", "t">>
DOT_LOG == <<".">> \o <<"l", "o", "g">>
Join(a, b) == a \o <<"/">> \o b
Range(s) == {s[i] : i \in DOMAIN s}

\* 'log.%i' % year, and the month directory and day log under it
YearDir(y) == LOG_DOT \o FmtI(y)
MonthDir(y, m) == Join(YearDir(y), Fmt02(m))
DayLog(y, m, d) == Join(MonthDir(y, m), Fmt02(d) \o DOT_LOG)

\* a log line '%s\n' % name, and what the readers make of it: l[:-1]
Line(name) == name \o <<"\n">>
Strip(l) == SubSeq(l, 1, Len(l) - 1)
\* Faulty variant of ReadKeys: the lines taken with their newline.
ReadKeys_Unstripped(lines) == {lines[i] : i \in DOMAIN lines}
ReadKeys(lines) == {Strip(lines[i]) : i \in DOMAIN lines}

\* the calendar order of dates
DateLess(a, b) ==
  \/ a[1] < b[1]
  \/ a[1] = b[1] /\ a[2] < b[2]
  \/ a[1] = b[1] /\ a[2] = b[2] /\ a[3] < b[3]
FirstDate == CHOOSE a \in Dates : \A b \in Dates : a = b \/ DateLess(a, b)

VARIABLES
  numHandles,  \* Memory objects constructed so far on the root: 1..numHandles
  cache,       \* the entry directories of the root: name -> what they hold
  logCurrent,  \* the lines of <root>/log.current
  dayLogs,     \* the day logs: path under the root -> lines
  logDirs,     \* the log.<year> and month directories made so far
  today,       \* the date time.localtime() reports
  mtime,       \* st_mtime of each file
  proc,        \* each caller's memoized call in progress
  last,        \* the latest completed call on the root
  nExec,       \* calls started; a call's number names its execution
  usedBy,      \* history: handle -> names recorded through it since it was made
  touched,     \* history: names recorded since the latest Memory was made
  nCollect,    \* history: collections run so far
  rootKind,    \* what the root path is: absent, a directory or a regular file
  numPipeFuncs,\* PipeFunc objects constructed directly on the root path
  collected,   \* the value the latest collection returned
  coll,        \* each collector's position in a collection taken step by step
  content,     \* the content of each file
  seen         \* history: the files as they were when each caller's call was named

vars == <<numHandles, cache, logCurrent, dayLogs, logDirs, today, mtime, proc,
          last, nExec, usedBy, touched, nCollect, rootKind, numPipeFuncs,
          collected, coll, content, seen>>
\* what only the constructors, the collections taken step by step and the
\* writers of files change
otherVars == <<rootKind, numPipeFuncs, coll, content>>
rootVars == <<cache, logCurrent, dayLogs, logDirs>>
envVars == <<today, mtime>>

Handles == 1..numHandles
NoCall == [valid |-> FALSE, iface |-> "", kwargs |-> <<>>, fp |-> <<>>,
           name |-> <<>>, ret |-> 0]
Idle == [pc |-> "idle", h |-> 0, iface |-> "", kwargs |-> <<>>, fp |-> <<>>,
         name |-> <<>>, exec |-> 0, ret |-> 0, hit |-> FALSE, prev |-> NoCall]
\* The callers are interchangeable: a call is taken by the first idle one.
ProcNo(p) == CASE p = "p1" -> 1 [] p = "p2" -> 2
FirstIdle ==
  CHOOSE p \in Procs : /\ proc[p].pc = "idle"
                        /\ \A q \in Procs : proc[q].pc = "idle" => ProcNo(p) <= ProcNo(q)
AllIdle == \A p \in Procs : proc[p].pc = "idle"
NoCollection == [pc |-> "idle", todo |-> {}, cur |-> <<>>]

Init ==
  /\ numHandles = 0
  /\ cache = <<>>
  /\ logCurrent = <<>>
  /\ dayLogs = <<>>
  /\ logDirs = {}
  /\ today = FirstDate
  /\ mtime = [f \in Files |-> 0]
  /\ proc = [p \in Procs |-> Idle]
  /\ last = NoCall
  /\ nExec = 0
  /\ usedBy = <<>>
  /\ touched = {}
  /\ nCollect = 0
  /\ rootKind \in RootKinds
  /\ numPipeFuncs = 0
  /\ collected = None
  /\ coll = [c \in Collectors |-> NoCollection]
  /\ content = [f \in Files |-> 0]
  /\ seen = [p \in Procs |-> [mtime |-> mtime, content |-> content]]

\* ------------------------------------------------------- Memory.__init__
\* mkdir the root if absent; ValueError if it exists and is not a directory
\* (lines 144-145), which leaves everything as it was; then
\* open(log.current, 'w'): the file is created or truncated.
\* Faulty variant of MemoryInit: log.current opened in append mode.
MemoryInit_Appending ==
  /\ numHandles < MaxHandles
  /\ IF rootKind = "file" THEN UNCHANGED vars
     ELSE /\ rootKind' = "dir"
          /\ numHandles' = numHandles + 1
          /\ usedBy' = Append(usedBy, {})
          /\ touched' = {}
          /\ UNCHANGED <<rootVars, envVars, proc, last, nExec, nCollect,
                         numPipeFuncs, collected, coll, content, seen>>

MemoryInit ==
  /\ numHandles < MaxHandles
  /\ IF rootKind = "file" THEN UNCHANGED vars
     ELSE /\ rootKind' = "dir"
          /\ numHandles' = numHandles + 1
          /\ logCurrent' = <<>>
          /\ usedBy' = Append(usedBy, {})
          /\ touched' = {}
          /\ UNCHANGED <<cache, dayLogs, logDirs, envVars, proc, last, nExec,
                         nCollect, numPipeFuncs, collected, coll, content, seen>>

\* ------------------------------------------------------- PipeFunc.__init__
\* PipeFunc given the root path directly (lines 83-96). Line 90 raises when
\* the path does not exist and is a directory, which no path is: the object
\* is made whatever the path is.
PipeFuncRaises(exists, isdir) == ~exists /\ isdir
PipeFuncInit ==
  /\ numPipeFuncs < MaxPipeFuncs
  /\ IF PipeFuncRaises(rootKind # "absent", rootKind = "dir")
       THEN UNCHANGED vars
       ELSE /\ numPipeFuncs' = numPipeFuncs + 1
            /\ UNCHANGED <<numHandles, rootVars, envVars, proc, last, nExec,
                           usedBy, touched, nCollect, rootKind, collected, coll,
                           content, seen>>


\* --------------------------------------------------------- Node.run()
\* nipype's Node is not part of this repository. Its run() is modelled from
\* the Cache Store of the specification: an entry directory <root>/<name>
\* holds the working files of the execution and its stored outputs; a call
\* that finds stored outputs returns them without executing (a hit), any
\* other call executes the interface inside the entry directory.
Put(f, k, v) == [x \in DOMAIN f \cup {k} |-> IF x = k THEN v ELSE f[x]]
Without(f, ks) == [x \in DOMAIN f \ ks |-> f[x]]
EmptyEntry == [work |-> 0, result |-> 0]
IsHit(c, name) == name \in DOMAIN c /\ c[name].result # 0
MakeDir(c, name) == IF name \in DOMAIN c THEN c ELSE Put(c, name, EmptyEntry)

\* ------------------------------------------------------ PipeFunc.__call__
\* Lines 99-109: hash the inputs and name the node. An unknown input name
\* raises ValueError out of hash_inputs.
Name(p, h, iface, kwargs) ==
  /\ proc[p].pc = "idle"
  /\ p = FirstIdle
  /\ h \in Handles
  /\ nExec < MaxCalls
  /\ nExec' = nExec + 1
  /\ LET inputs == hash_inputs(kwargs, Class(iface).traits, mtime)
         me == [Idle EXCEPT !.h = h, !.iface = iface, !.kwargs = kwargs,
                            !.exec = nExec + 1, !.prev = last]
     IN  IF inputs.error
           THEN proc' = [proc EXCEPT ![p] = [me EXCEPT !.pc = "raised"]]
           ELSE proc' = [proc EXCEPT ![p] =
                           [me EXCEPT !.pc = "named", !.fp = inputs.out,
                                      !.name = NodeName(Class(iface), inputs.out)]]
  /\ seen' = [seen EXCEPT ![p] = [mtime |-> mtime, content |-> content]]
  /\ UNCHANGED <<otherVars, collected, numHandles, rootVars, envVars, last,
                 usedBy, touched, nCollect>>

\* Lines 110-112: node.run() with base_dir the root: a hit returns at once,
\* a miss starts an execution in <root>/<name>.
\* Faulty variant of Run: an entry directory that exists counts as a hit.
Run_DirIsHit(p) ==
  /\ proc[p].pc = "named"
  /\ IF proc[p].name \in DOMAIN cache
       THEN /\ proc' = [proc EXCEPT ![p].pc = "ran", ![p].hit = TRUE,
                                    ![p].ret = cache[proc[p].name].result]
            /\ UNCHANGED cache
       ELSE /\ cache' = MakeDir(cache, proc[p].name)
            /\ proc' = [proc EXCEPT ![p].pc = "running"]
  /\ UNCHANGED <<otherVars, collected, seen, numHandles, logCurrent, dayLogs, logDirs, envVars, last,
                 nExec, usedBy, touched, nCollect>>

Run(p) ==
  /\ proc[p].pc = "named"
  /\ IF IsHit(cache, proc[p].name)
       THEN /\ proc' = [proc EXCEPT ![p].pc = "ran", ![p].hit = TRUE,
                                    ![p].ret = cache[proc[p].name].result]
            /\ UNCHANGED cache
       ELSE /\ cache' = MakeDir(cache, proc[p].name)
            /\ proc' = [proc EXCEPT ![p].pc = "running"]
  /\ UNCHANGED <<otherVars, collected, seen, numHandles, logCurrent, dayLogs, logDirs, envVars, last,
                 nExec, usedBy, touched, nCollect>>

\* The execution writes its working files into the entry directory.
OperationWrite(p) ==
  /\ proc[p].pc = "running"
  /\ IF proc[p].name \in DOMAIN cache
       THEN /\ cache' = [cache EXCEPT ![proc[p].name].work = proc[p].exec]
            /\ proc' = [proc EXCEPT ![p].pc = "written"]
       ELSE /\ proc' = [proc EXCEPT ![p].pc = "raised"]
            /\ UNCHANGED cache
  /\ UNCHANGED <<otherVars, collected, seen, numHandles, logCurrent, dayLogs, logDirs, envVars, last,
                 nExec, usedBy, touched, nCollect>>

\* The execution succeeds: its outputs are stored in the entry directory and
\* node.run() returns them (line 112).
OperationStore(p) ==
  /\ proc[p].pc = "written"
  /\ IF proc[p].name \in DOMAIN cache
       THEN /\ cache' = [cache EXCEPT ![proc[p].name].result = proc[p].exec]
            /\ proc' = [proc EXCEPT ![p].pc = "ran", ![p].ret = proc[p].exec]
       ELSE /\ proc' = [proc EXCEPT ![p].pc = "raised"]
            /\ UNCHANGED cache
  /\ UNCHANGED <<otherVars, collected, seen, numHandles, logCurrent, dayLogs, logDirs, envVars, last,
                 nExec, usedBy, touched, nCollect>>

\* The execution fails: node.run() raises, and line 112 lets the exception
\* through: the callback of line 114 is not reached.
OperationFail(p) ==
  /\ proc[p].pc \in {"running", "written"}
  /\ proc' = [proc EXCEPT ![p].pc = "raised"]
  /\ UNCHANGED <<otherVars, collected, seen, numHandles, rootVars, envVars, last, nExec, usedBy, touched, nCollect>>

\* ------------------------------------------------------ Memory._log_name
\* Lines 113-114 and 161-162: the callback appends the name to log.current.
\* Faulty variant of LogCurrent: the callback is given to the PipeFunc but
\* its call is left out, log.current gets no line.
LogCurrent_Skipped(p) ==
  /\ proc[p].pc = "ran"
  /\ proc' = [proc EXCEPT ![p].pc = "logging"]
  /\ UNCHANGED <<otherVars, collected, seen, numHandles, rootVars, envVars, last, nExec, usedBy, touched, nCollect>>

LogCurrent(p) ==
  /\ proc[p].pc = "ran"
  /\ logCurrent' = Append(logCurrent, Line(proc[p].name))
  /\ touched' = touched \cup {proc[p].name}
  /\ proc' = [proc EXCEPT ![p].pc = "logging"]
  /\ UNCHANGED <<otherVars, collected, seen, numHandles, cache, dayLogs, logDirs, envVars, last, nExec, usedBy, nCollect>>

\* Lines 163-175: make the year and month directories of today if they are
\* missing and append the name to today's day log. The line is short and is
\* written by one write of a file opened in append mode, when the file
\* object is dropped: one step.
\* Faulty variant of LogDay: the day log opened in 'w' mode.
LogDay_Truncating(p) ==
  /\ proc[p].pc = "logging"
  /\ LET y == today[1]
         m == today[2]
         d == today[3]
         path == DayLog(y, m, d)
     IN  /\ logDirs' = logDirs \cup {YearDir(y), MonthDir(y, m)}
         /\ dayLogs' = Put(dayLogs, path, <<Line(proc[p].name)>>)
  /\ usedBy' = [usedBy EXCEPT ![proc[p].h] = @ \cup {proc[p].name}]
  /\ proc' = [proc EXCEPT ![p].pc = "done"]
  /\ UNCHANGED <<otherVars, collected, seen, numHandles, cache, logCurrent, envVars, last, nExec, touched, nCollect>>

LogDay(p) ==
  /\ proc[p].pc = "logging"
  /\ LET y == today[1]
         m == today[2]
         d == today[3]
         path == DayLog(y, m, d)
         old == IF path \in DOMAIN dayLogs THEN dayLogs[path] ELSE <<>>
     IN  /\ logDirs' = logDirs \cup {YearDir(y), MonthDir(y, m)}
         /\ dayLogs' = Put(dayLogs, path, Append(old, Line(proc[p].name)))
  /\ usedBy' = [usedBy EXCEPT ![proc[p].h] = @ \cup {proc[p].name}]
  /\ proc' = [proc EXCEPT ![p].pc = "done"]
  /\ UNCHANGED <<otherVars, collected, seen, numHandles, cache, logCurrent, envVars, last, nExec, touched, nCollect>>

\* Line 115: the call returns the outputs. (The history keeps the call while
\* the entry it returned stands.)
Return(p) ==
  /\ proc[p].pc = "done"
  /\ last' = [valid |-> /\ IsHit(cache, proc[p].name)
                        /\ cache[proc[p].name].result = proc[p].ret,
              iface |-> proc[p].iface, kwargs |-> proc[p].kwargs,
              fp |-> proc[p].fp, name |-> proc[p].name, ret |-> proc[p].ret]
  /\ proc' = [proc EXCEPT ![p] = Idle]
  /\ UNCHANGED <<otherVars, collected, seen, numHandles, rootVars, envVars, nExec, usedBy, touched, nCollect>>

\* The call ends with the exception.
Raise(p) ==
  /\ proc[p].pc = "raised"
  /\ proc' = [proc EXCEPT ![p] = Idle]
  /\ UNCHANGED <<otherVars, collected, seen, numHandles, rootVars, envVars, last, nExec, usedBy, touched, nCollect>>


\* ------------------------------------------------- Memory._clear_all_but
\* os.listdir(base_dir): the entry directories, log.current and the year
\* directories.
Listing == DOMAIN cache \cup {LOG_CURRENT} \cup {d \in logDirs : "/" \notin Range(d)}

\* os.path.exists(os.path.join(base_dir, dirname)): joining the empty name
\* gives the root itself.
Exists(dirname) == dirname = <<>> \/ dirname \in Listing

\* Faulty variants of Removed: the difference taken the other way round, and
\* the listing taken without its 'log.' filter.
Removed_Reversed(runs) == {d \in runs \ Listing : Exists(d)}
Removed_Unfiltered(runs) ==
  LET old_dirs == (runs \ Listing) \cup (Listing \ runs)
  IN  {d \in old_dirs : Exists(d)}

\* The names line 221 removes: the symmetric difference of the given runs
\* and the listed names that do not start with 'log.', where they exist.
Removed(runs) ==
  LET dirs == {d \in Listing : ~StartsWith(d, LOG_DOT)}
      old_dirs == (runs \ dirs) \cup (dirs \ runs)
  IN  {d \in old_dirs : Exists(d)}

\* shutil.rmtree of the removed names, on the entry directories and on the
\* log directories (a removed year directory takes its logs with it). The
\* history of completed calls is forgotten when an entry goes.
Under(path, dirs) == \E d \in dirs : d = <<>> \/ StartsWith(path, d \o <<"/">>) \/ path = d
Forget(gone) ==
  IF gone \cap DOMAIN cache = {}
    THEN UNCHANGED <<proc, last>>
    ELSE /\ last' = NoCall
         /\ proc' = [p \in Procs |-> [proc[p] EXCEPT !.prev = NoCall]]
\* Faulty variant of _clear_all_but: the number of entries removed is
\* returned.
_clear_all_but_Counting(runs, flushed) ==
  LET gone == Removed(runs)
  IN  /\ cache' = Without(cache, gone \cap DOMAIN cache)
      /\ logDirs' = {d \in logDirs : ~Under(d, gone)}
      /\ dayLogs' = Without(dayLogs, {l \in DOMAIN dayLogs : Under(l, gone)}
                                       \cup flushed)
      /\ Forget(gone)
      /\ collected' = Cardinality(gone \cap DOMAIN cache)

\* The function ends without a return statement: the caller gets None, and
\* so do the callers of the two collections (lines 185, 205-207).
_clear_all_but(runs, flushed) ==
  LET gone == Removed(runs)
  IN  /\ collected' = None
      /\ cache' = Without(cache, gone \cap DOMAIN cache)
      /\ logDirs' = {d \in logDirs : ~Under(d, gone)}
      /\ dayLogs' = Without(dayLogs, {l \in DOMAIN dayLogs : Under(l, gone)}
                                       \cup flushed)
      /\ Forget(gone)

\* -------------------------------------------- Memory.clear_previous_runs
\* Keep what log.current names, remove the rest.
clear_previous_runs(h) ==
  /\ h \in Handles
  /\ nCollect < MaxCollect
  /\ nCollect' = nCollect + 1
  /\ _clear_all_but(ReadKeys(logCurrent), {})
  /\ UNCHANGED <<otherVars, seen, numHandles, logCurrent, envVars, nExec, usedBy, touched>>

\* ----------------------------------------------- Memory.clear_runs_since
\* The day logs whose path is, as a string, below the cut-off path are
\* flushed; the names in the others are kept. The missing arguments
\* default to today's. The flushed logs are removed after the entries
\* (lines 206-207).
CutOffFile(day, month, year) ==
  BaseDir \o <<"/">> \o LOG_DOT \o FmtI(year) \o <<"/">> \o Fmt02(month)
    \o <<"/">> \o Fmt02(day) \o DOT_LOG
LogsToFlush(cut_off_file) ==
  {l \in DOMAIN dayLogs : StrLess(Join(BaseDir, l), cut_off_file)}
RecentlyRun(cut_off_file) ==
  UNION {ReadKeys(dayLogs[l]) : l \in DOMAIN dayLogs \ LogsToFlush(cut_off_file)}
CutOff(day, month, year) ==
  <<IF year # None THEN year ELSE today[1],
    IF month # None THEN month ELSE today[2],
    IF day # None THEN day ELSE today[3]>>

clear_runs_since(day, month, year) ==
  /\ Handles # {}
  /\ nCollect < MaxCollect
  /\ nCollect' = nCollect + 1
  /\ LET c == CutOff(day, month, year)
         cut_off_file == CutOffFile(c[3], c[2], c[1])
     IN  _clear_all_but(RecentlyRun(cut_off_file), LogsToFlush(cut_off_file))
  /\ UNCHANGED <<otherVars, seen, numHandles, logCurrent, envVars, nExec, usedBy, touched>>

\* ------------------------------- clear_previous_runs, statement by statement
\* The same collection as several collectors run it on one root at once:
\* the listing and the difference (lines 183-184, 213-215), then for each
\* name the test of line 218 and the rmtree of line 221, which are two
\* system calls with the other collector's between them.
OldDirs(runs) ==
  LET dirs == {d \in Listing : ~StartsWith(d, LOG_DOT)}
  IN  (runs \ dirs) \cup (dirs \ runs)
CollectorsIdle == \A c \in Collectors : coll[c].pc = "idle"

ListDirs(c) ==
  /\ coll[c].pc = "idle"
  /\ Handles # {}
  /\ nCollect < MaxCollect
  /\ nCollect' = nCollect + 1
  /\ coll' = [coll EXCEPT ![c] = [pc |-> "loop", cur |-> <<>>,
                                   todo |-> OldDirs(ReadKeys(logCurrent))]]
  /\ UNCHANGED <<numHandles, rootVars, envVars, proc, last, nExec, usedBy,
                 touched, rootKind, numPipeFuncs, collected, content, seen>>

\* for dirname in old_dirs: if os.path.exists(dirname)
CheckExists(c) ==
  /\ coll[c].pc = "loop"
  /\ \E d \in coll[c].todo :
       coll' = [coll EXCEPT ![c] =
                  IF Exists(d)
                    THEN [pc |-> "removing", cur |-> d, todo |-> coll[c].todo \ {d}]
                    ELSE [pc |-> "loop", cur |-> <<>>, todo |-> coll[c].todo \ {d}]]
  /\ UNCHANGED <<numHandles, rootVars, envVars, proc, last, nExec, usedBy,
                 touched, nCollect, rootKind, numPipeFuncs, collected, content, seen>>

\* shutil.rmtree(dirname), called without ignore_errors: OSError when the
\* directory is not there any more.
RmTree(c) ==
  /\ coll[c].pc = "removing"
  /\ IF Exists(coll[c].cur)
       THEN /\ cache' = Without(cache, {coll[c].cur} \cap DOMAIN cache)
            /\ logDirs' = {d \in logDirs : ~Under(d, {coll[c].cur})}
            /\ dayLogs' = Without(dayLogs, {l \in DOMAIN dayLogs : Under(l, {coll[c].cur})})
            /\ Forget({coll[c].cur})
            /\ coll' = [coll EXCEPT ![c].pc = "loop", ![c].cur = <<>>]
       ELSE /\ coll' = [coll EXCEPT ![c].pc = "error"]
            /\ UNCHANGED <<cache, logDirs, dayLogs, proc, last>>
  /\ UNCHANGED <<numHandles, logCurrent, envVars, nExec, usedBy, touched,
                 nCollect, rootKind, numPipeFuncs, collected, content, seen>>

\* The loop is over: the collection returns (None).
CollectReturn(c) ==
  /\ coll[c].pc = "loop"
  /\ coll[c].todo = {}
  /\ coll' = [coll EXCEPT ![c] = NoCollection]
  /\ collected' = None
  /\ UNCHANGED <<numHandles, rootVars, envVars, proc, last, nExec, usedBy,
                 touched, nCollect, rootKind, numPipeFuncs, content, seen>>

\* The OSError leaves the collection, the names left are not looked at.
CollectRaise(c) ==
  /\ coll[c].pc = "error"
  /\ coll' = [coll EXCEPT ![c] = NoCollection]
  /\ UNCHANGED <<numHandles, rootVars, envVars, proc, last, nExec, usedBy,
                 touched, nCollect, rootKind, numPipeFuncs, collected, content, seen>>

\* ------------------------------------------------------- the environment
\* The calendar day changes.
Tick ==
  /\ \E d \in Dates : DateLess(today, d) /\ today' = d
  /\ UNCHANGED <<otherVars, collected, seen, numHandles, rootVars, mtime, proc, last, nExec,
                 usedBy, touched, nCollect>>

\* A file an input refers to is given another content, its modification
\* time staying what it was.
Write(f) ==
  /\ \E c \in Contents \ {content[f]} : content' = [content EXCEPT ![f] = c]
  /\ UNCHANGED <<numHandles, rootVars, envVars, proc, last, nExec, usedBy,
                 touched, nCollect, rootKind, numPipeFuncs, collected, coll, seen>>

\* A file an input refers to is touched: its modification time changes.
Touch(f) ==
  /\ mtime[f] + 1 \in Mtimes
  /\ mtime' = [mtime EXCEPT ![f] = @ + 1]
  /\ UNCHANGED <<otherVars, collected, seen, numHandles, rootVars, today, proc, last, nExec, usedBy, touched, nCollect>>

\* The arguments the collections by date are called with: a full date, the
\* year alone (as in src/example.py, line 47) or nothing.
CutOffArgs ==
  {<<d[3], d[2], d[1]>> : d \in CutOffDates}
    \cup {<<None, None, 2011>>, <<None, None, None>>}

\* One step of the caller p.
CallStep(p) ==
  \/ \E h \in Handles, c \in CallInputs : Name(p, h, c[1], c[2])
  \/ Run(p)
  \/ OperationWrite(p)
  \/ OperationStore(p)
  \/ OperationFail(p)
  \/ LogCurrent(p)
  \/ LogDay(p)
  \/ Return(p)
  \/ Raise(p)

\* One caller, as src/example.py: its calls follow one another and it
\* collects with no call in flight, as callers are required to; Memory
\* objects are made on the root and the days pass at any moment.
Next ==
  \/ MemoryInit
  \/ CallStep("p1")
  \/ \E h \in Handles : AllIdle /\ clear_previous_runs(h)
  \/ \E a \in CutOffArgs : AllIdle /\ clear_runs_since(a[1], a[2], a[3])
  \/ Tick

Spec == Init /\ [][Next]_vars

\* Two callers share the root and their calls overlap.
NextRace ==
  \/ MemoryInit
  \/ \E p \in Procs : CallStep(p)

SpecRace == Init /\ [][NextRace]_vars

\* The constructors and the naming of the nodes alone (lines 99-109), while
\* the files the inputs refer to are touched and rewritten.
NextHash ==
  \/ MemoryInit
  \/ PipeFuncInit
  \/ \E p \in Procs, h \in Handles, c \in HashInputs : Name(p, h, c[1], c[2])
  \/ \E f \in Files : Touch(f)
  \/ \E f \in Files : Write(f)

SpecHash == Init /\ [][NextHash]_vars

\* Two collectors share the root; the caller calls and the collectors start
\* while nothing else is in flight.
NextCollect ==
  \/ MemoryInit
  \/ CollectorsIdle /\ CallStep("p1")
  \/ \E c \in Collectors :
       \/ AllIdle /\ ListDirs(c)
       \/ CheckExists(c)
       \/ RmTree(c)
       \/ CollectReturn(c)
       \/ CollectRaise(c)

SpecCollect == Init /\ [][NextCollect]_vars

\* ================================================================ claims
\* What the claims speak of, said without the code's own readers: the names
\* a log holds, the date a day log is for, the items of a dict whatever
\* their order.
Holds(lines, k) == \E i \in DOMAIN lines : lines[i] = Line(k)
DateOfLog(l) == CHOOSE d \in Dates : DayLog(d[1], d[2], d[3]) = l
SameItems(a, b) == Range(a) = Range(b)
IsPrefix(a, b) == Len(a) <= Len(b) /\ SubSeq(b, 1, Len(a)) = a
Entries == DOMAIN cache

\* C1: two calls of one interface that follow one another with no deletion
\* in between and whose hashed inputs are equal as dicts get the same node
\* name; the second one does not execute and returns what the first returned.
C1_EqualFingerprintsRunOnce ==
  \A p \in Procs :
    LET c == proc[p]
    IN  (/\ c.pc = "done"
         /\ c.prev.valid
         /\ c.prev.iface = c.iface
         /\ SameItems(c.prev.fp, c.fp))
        => (c.name = c.prev.name /\ c.hit /\ c.ret = c.prev.ret)

\* C8: two calls of one interface with the same names and values (and the
\* same file stamps) get the same node name, whatever the order in which the
\* inputs dict iterates.
C8_OrderIndependentName ==
  \A p, q \in Procs :
    (/\ proc[p].pc = "named" /\ proc[q].pc = "named"
     /\ proc[p].iface = proc[q].iface
     /\ SameItems(proc[p].kwargs, proc[q].kwargs)
     /\ SameItems(proc[p].fp, proc[q].fp))
    => proc[p].name = proc[q].name


\* C2: with nothing in flight, on the latest Memory object h, when every name
\* recorded since h was made was used through h (the set K2) and those
\* entries are on disk, clear_previous_runs leaves on disk exactly the
\* entries of K2, each as it was: what the earlier handles alone used is gone.
C2_SequentialCollection ==
  [][\A h \in Handles :
       (/\ nCollect' # nCollect
        /\ clear_previous_runs(h)
        /\ AllIdle
        /\ h = numHandles
        /\ touched = usedBy[h]
        /\ usedBy[h] \subseteq Entries)
       => (/\ DOMAIN cache' = usedBy[h]
           /\ \A k \in usedBy[h] : cache'[k] = cache[k])]_vars

\* a collection has removed the entry of a name the first handle used and
\* the second did not, and has kept those the second handle used
C2_Witness ==
  /\ AllIdle
  /\ numHandles = 2
  /\ nCollect > 0
  /\ usedBy[2] # {}
  /\ usedBy[1] \ usedBy[2] # {}
  /\ Entries = usedBy[2]
  /\ touched = usedBy[2]

\* C3: with nothing in flight, clear_previous_runs on a Memory object h
\* removes no entry whose name was recorded through h since h was made.
C3_KeepsWhatTheHandleUsed ==
  [][\A h \in Handles :
       (nCollect' # nCollect /\ clear_previous_runs(h) /\ AllIdle)
       => \A k \in usedBy[h] \cap Entries : k \in DOMAIN cache']_vars

\* C4: with nothing in flight, clear_runs_since removes the entries recorded
\* only in day logs dated before the cut-off date, keeps those recorded in a
\* day log dated on or after it, removes the day logs dated before it and
\* leaves the others as they were.
C4_DayWindowCollection ==
  [][\A a \in CutOffArgs :
       (nCollect' # nCollect /\ clear_runs_since(a[1], a[2], a[3]) /\ AllIdle)
       => LET cut == CutOff(a[1], a[2], a[3])
              Old(l) == DateLess(DateOfLog(l), cut)
              logs == DOMAIN dayLogs
          IN  /\ \A k \in Entries :
                   (/\ \E l \in logs : Holds(dayLogs[l], k)
                    /\ \A l \in logs : Holds(dayLogs[l], k) => Old(l))
                   => k \notin DOMAIN cache'
              /\ \A k \in Entries :
                   (\E l \in logs : ~Old(l) /\ Holds(dayLogs[l], k))
                   => (k \in DOMAIN cache' /\ cache'[k] = cache[k])
              /\ \A l \in logs : Old(l) => l \notin DOMAIN dayLogs'
              /\ \A l \in logs :
                   ~Old(l) => (l \in DOMAIN dayLogs' /\ dayLogs'[l] = dayLogs[l])]_vars

\* the day log of the first date was flushed (its month directory is left),
\* the entry it alone recorded is gone, the later day log and its entry stay
C4_Witness ==
  LET d1 == FirstDate
      old == DayLog(d1[1], d1[2], d1[3])
  IN  /\ AllIdle
      /\ MonthDir(d1[1], d1[2]) \in logDirs
      /\ old \notin DOMAIN dayLogs
      /\ DOMAIN dayLogs # {}
      /\ Entries # {}
      /\ nExec = MaxCalls
      /\ \A k \in Entries : \E l \in DOMAIN dayLogs : Holds(dayLogs[l], k)

\* C5: a collection removes exactly the listed entries that are not in the
\* retained set it read from the logs; a retained name with no directory
\* removes nothing: the other entries and the logs are as before (but for
\* the day logs clear_runs_since flushes).
C5_Effect(retained, flushed) ==
  /\ Entries \ DOMAIN cache' = Entries \ retained
  /\ \A k \in Entries \cap retained : k \in DOMAIN cache' /\ cache'[k] = cache[k]
  /\ DOMAIN cache' \subseteq Entries
  /\ logCurrent' = logCurrent
  /\ logDirs' = logDirs
  /\ dayLogs' = Without(dayLogs, flushed)
C5_OneSidedDifference ==
  [][/\ \A h \in Handles :
          (nCollect' # nCollect /\ clear_previous_runs(h))
          => C5_Effect(ReadKeys(logCurrent), {})
     /\ \A a \in CutOffArgs :
          (nCollect' # nCollect /\ clear_runs_since(a[1], a[2], a[3]))
          => LET c == CutOff(a[1], a[2], a[3])
                 f == CutOffFile(c[3], c[2], c[1])
             IN  C5_Effect(RecentlyRun(f), LogsToFlush(f))]_vars

\* log.current retains a name whose entry is not on disk (a collection by
\* date removed it), and a collection by log.current has then removed
\* another entry: the names of log.current are not all entries, and an
\* entry known to the day logs is gone
C5_Witness ==
  /\ AllIdle
  /\ \E k \in ReadKeys(logCurrent) : k \notin Entries
  /\ \E k \in Entries : k \in ReadKeys(logCurrent)
  /\ nExec = MaxCalls
  /\ nCollect = 1


\* C6: log.current holds exactly the names recorded since the latest Memory
\* object was made on the root.
C6_CurrentLogIsSinceConstruction ==
  /\ \A i \in DOMAIN logCurrent : \E k \in touched : logCurrent[i] = Line(k)
  /\ \A k \in touched : Holds(logCurrent, k)

\* a second Memory object was made after a name was recorded, and log.current
\* holds a later record but not that name
C6_Witness ==
  /\ numHandles = 2
  /\ logCurrent # <<>>
  /\ \E k \in usedBy[1] : ~Holds(logCurrent, k)

\* C7: a call that got its outputs (a hit or a completed execution) appends
\* its name once to log.current, then once to today's day log, then returns;
\* no other step of a call changes a log, a failed call least of all.
TodayLog == DayLog(today[1], today[2], today[3])
C7_Step(p) ==
  LET c == proc[p]
      pc2 == proc'[p].pc
  IN  IF c.pc = pc2 THEN TRUE
      ELSE CASE c.pc = "ran" ->
                  /\ pc2 = "logging"
                  /\ c.ret # 0
                  /\ logCurrent' = Append(logCurrent, Line(c.name))
                  /\ dayLogs' = dayLogs
             [] c.pc = "logging" ->
                  /\ pc2 = "done"
                  /\ logCurrent' = logCurrent
                  /\ TodayLog \in DOMAIN dayLogs'
                  /\ dayLogs'[TodayLog] =
                       Append(IF TodayLog \in DOMAIN dayLogs THEN dayLogs[TodayLog]
                              ELSE <<>>, Line(c.name))
                  /\ \A l \in DOMAIN dayLogs \ {TodayLog} :
                       l \in DOMAIN dayLogs' /\ dayLogs'[l] = dayLogs[l]
             [] c.pc = "done" ->
                  pc2 = "idle" /\ logCurrent' = logCurrent /\ dayLogs' = dayLogs
             [] OTHER ->
                  /\ pc2 = "ran" => IsHit(cache', c.name)
                  /\ pc2 \notin {"logging", "done"}
                  /\ logCurrent' = logCurrent
                  /\ dayLogs' = dayLogs
C9_DayLogsAdditive ==
  [][/\ \/ \A l \in DOMAIN dayLogs :
             l \in DOMAIN dayLogs' /\ IsPrefix(dayLogs[l], dayLogs'[l])
        \/ /\ nCollect' # nCollect
           /\ \E a \in CutOffArgs :
                /\ clear_runs_since(a[1], a[2], a[3])
                /\ \A l \in DOMAIN dayLogs :
                     IF l \in DOMAIN dayLogs' THEN dayLogs'[l] = dayLogs[l]
                     ELSE DateLess(DateOfLog(l), CutOff(a[1], a[2], a[3]))
     /\ \/ Entries \subseteq DOMAIN cache'
        \/ /\ nCollect' # nCollect
           /\ \/ \E h \in Handles : clear_previous_runs(h)
              \/ \E a \in CutOffArgs : clear_runs_since(a[1], a[2], a[3])]_vars

\* a day log still holds, among its two lines, the name of an entry that
\* clear_previous_runs removed after a second Memory object was made
C9_Witness ==
  /\ numHandles = 2
  /\ nCollect > 0
  /\ \E l \in DOMAIN dayLogs :
       /\ Len(dayLogs[l]) = 2
       /\ \E i \in DOMAIN dayLogs[l] : Strip(dayLogs[l][i]) \notin Entries

\* C10: an entry that counts as a hit holds the working files and the stored
\* outputs of one and the same execution, at every moment and so also once
\* the callers racing on it have finished.
C10_NoMixedEntry ==
  \A k \in Entries : cache[k].result # 0 => cache[k].work = cache[k].result


\* C11: when callers record at the same time, each of their names is a line
\* of its own in today's day log, and in log.current when no Memory object
\* was made since they were named; every line of a log is a name followed by
\* one newline, and a log has no more lines than calls were made.
WellFormed(l) ==
  /\ Len(l) >= 2
  /\ l[Len(l)] = "\n"
  /\ "\n" \notin Range(Strip(l))
HoldsEach(lines) ==
  \E f \in [Procs -> DOMAIN lines] :
    /\ \A p, q \in Procs : p # q => f[p] # f[q]
    /\ \A p \in Procs : lines[f[p]] = Line(proc[p].name)
C11_ConcurrentAppends ==
  /\ \A i \in DOMAIN logCurrent : WellFormed(logCurrent[i])
  /\ \A l \in DOMAIN dayLogs :
       /\ Len(dayLogs[l]) <= nExec
       /\ \A i \in DOMAIN dayLogs[l] : WellFormed(dayLogs[l][i])
  /\ Len(logCurrent) <= nExec
  /\ (\A p \in Procs : proc[p].pc = "done") =>
       /\ TodayLog \in DOMAIN dayLogs
       /\ HoldsEach(dayLogs[TodayLog])
       /\ (\A p \in Procs : proc[p].h = numHandles) => HoldsEach(logCurrent)

\* two callers that both executed the same miss have both recorded it
C11_Witness ==
  /\ \A p \in Procs : proc[p].pc = "done" /\ ~proc[p].hit /\ proc[p].h = numHandles
  /\ proc["p1"].name = proc["p2"].name
  /\ Len(logCurrent) = 2


\* C12: when the operation of a call fails, the call ends with the error and
\* its entry is no hit; an entry becomes a hit only when an execution stores
\* its result; and a call whose entry is no hit executes the operation.
C12_Step(p) ==
  LET c == proc[p]
      pc2 == proc'[p].pc
  IN  /\ (c.pc \in {"running", "written"} /\ pc2 # c.pc /\ pc2 # "written") =>
           \/ pc2 = "ran" /\ c.pc = "written" /\ cache'[c.name].result = c.exec
           \/ /\ pc2 = "raised"
              /\ ~IsHit(cache', c.name)
              /\ \A k \in DOMAIN cache' : cache'[k].result # c.exec
      /\ (c.pc = "raised" /\ pc2 # "raised") => pc2 = "idle" /\ last' = last
      /\ (c.pc = "named" /\ pc2 # "named" /\ ~IsHit(cache, c.name)) =>
           pc2 = "running"
UnknownName(c) ==
  \E i \in DOMAIN c.kwargs : c.kwargs[i][1] \notin DOMAIN Class(c.iface).traits
C13_Step(p) ==
  LET c == proc[p]
      c2 == proc'[p]
  IN  /\ (c.pc = "idle" /\ c2.pc # "idle" /\ UnknownName(c2)) =>
           c2.pc = "raised" /\ rootVars' = rootVars
      /\ (c.pc # "idle" /\ UnknownName(c)) =>
           /\ c.pc = "raised"
           /\ c2.pc \in {"raised", "idle"}
           /\ c2.pc # c.pc => rootVars' = rootVars
C13_UnknownNameChangesNothing == [][\A p \in Procs : C13_Step(p)]_vars

\* the call with the unknown name has raised on a root that holds a valid
\* entry and its records
C13_Witness ==
  /\ proc["p1"].pc = "raised"
  /\ UnknownName(proc["p1"])
  /\ \E k \in Entries : IsHit(cache, k) /\ Holds(logCurrent, k)


\* C14: over a root path that is a regular file no constructor succeeds, and
\* nothing is created or truncated there: no Memory and no PipeFunc object
\* comes to be and the root stays as it is.
C14_InvalidRootRefused ==
  [][rootKind = "file" =>
       /\ numHandles' = numHandles
       /\ numPipeFuncs' = numPipeFuncs
       /\ rootKind' = rootKind
       /\ rootVars' = rootVars]_vars


\* C15: a collection never ends with an error because an entry it was to
\* remove is gone already, whatever another collection does at the same time.
C15_RemovedAlreadyIsNoError == \A c \in Collectors : coll[c].pc # "error"


\* C16: the hashed value of a File input that must exist is the pair of its
\* path and the modification time the file had when the call was named; two
\* calls that pass the same inputs get the same node name exactly when the
\* files they refer to had the same modification times at their naming,
\* whatever the contents of the files were.
MustExist(c, i) ==
  LET t == Class(c.iface).traits[c.kwargs[i][1]]
  IN  t.type = "File" /\ t.exists
ExistingFiles(c) == {c.kwargs[i][2] : i \in {j \in DOMAIN c.kwargs : MustExist(c, j)}}
C16_PathAndMtime ==
  \A p, q \in Procs :
    (/\ proc[p].pc = "named" /\ proc[q].pc = "named"
     /\ proc[p].iface = "Threshold" /\ proc[q].iface = "Threshold"
     /\ proc[p].kwargs = proc[q].kwargs)
    => /\ \A i \in DOMAIN proc[p].kwargs :
            LET nm == proc[p].kwargs[i][1]
                v == proc[p].kwargs[i][2]
            IN  MustExist(proc[p], i) =>
                  proc[p].fp[i] = <<nm, <<v, seen[p].mtime[v]>>>>
       /\ (proc[p].name = proc[q].name) <=>
            \A f \in ExistingFiles(proc[p]) : seen[p].mtime[f] = seen[q].mtime[f]
       /\ (proc[p].fp = proc[q].fp) <=> (proc[p].name = proc[q].name)

\* the file was touched between two calls with the same inputs, and they got
\* two names
C16_Witness ==
  /\ proc["p1"].pc = "named" /\ proc["p2"].pc = "named"
  /\ proc["p1"].iface = "Threshold"
  /\ proc["p1"].kwargs = proc["p2"].kwargs
  /\ \E f \in ExistingFiles(proc["p1"]) : seen["p1"].mtime[f] # seen["p2"].mtime[f]
  /\ proc["p1"].name # proc["p2"].name


\* C17: the hashed value of a List input is the sequence of the hashed
\* values of its elements, in the order given; of two calls that name their
\* node while the files have the same modification times, those that pass
\* the same list get the same hashed inputs and the same name, and those
\* that pass the same files in another order get other ones.
C17_SequenceOrderCounts ==
  \A p, q \in Procs :
    (/\ proc[p].pc = "named" /\ proc[q].pc = "named"
     /\ proc[p].iface = "Merge" /\ proc[q].iface = "Merge"
     /\ seen[p].mtime = seen[q].mtime)
    => LET lp == proc[p].kwargs[1][2]
           lq == proc[q].kwargs[1][2]
       IN  /\ proc[p].fp[1][2] = [i \in DOMAIN lp |-> <<lp[i], seen[p].mtime[lp[i]]>>]
           /\ (lp = lq) <=> (proc[p].fp = proc[q].fp)
           /\ (lp = lq) <=> (proc[p].name = proc[q].name)

\* two calls passed the two files in the two orders and got two names
C17_Witness ==
  /\ proc["p1"].pc = "named" /\ proc["p2"].pc = "named"
  /\ proc["p1"].iface = "Merge" /\ proc["p2"].iface = "Merge"
  /\ seen["p1"].mtime = seen["p2"].mtime
  /\ proc["p1"].kwargs[1][2] = <<"f1", "f2">>
  /\ proc["p2"].kwargs[1][2] = <<"f2", "f1">>
  /\ proc["p1"].name # proc["p2"].name


C19_LogsAreNoEntries ==
  [][nCollect' # nCollect =>
       /\ logCurrent' = logCurrent
       /\ (\E h \in Handles : clear_previous_runs(h)) =>
            dayLogs' = dayLogs /\ logDirs' = logDirs
       /\ \A a \in CutOffArgs :
            clear_runs_since(a[1], a[2], a[3]) =>
              \A l \in DOMAIN dayLogs :
                ~DateLess(DateOfLog(l), CutOff(a[1], a[2], a[3])) =>
                  l \in DOMAIN dayLogs' /\ dayLogs'[l] = dayLogs[l]]_vars

\* a collection has removed an entry whose name starts with "log", and the
\* logs that name it are there
C19_Witness ==
  /\ nCollect > 0
  /\ logCurrent # <<>>
  /\ \E l \in DOMAIN dayLogs : \E i \in DOMAIN dayLogs[l] :
       /\ Strip(dayLogs[l][i]) \notin Entries
       /\ SubSeq(dayLogs[l][i], 1, 3) = <<"l", "o", "g">>


====
